---- MODULE Spec2Model ----
(***************************************************************************)
(* Model of the session manager of src/simplesessions.go.                  *)
(*                                                                         *)
(* sm.Sessions is a Go slice.  The model keeps its visible elements in     *)
(* Sessions; while a method runs, the loops of the method work on the      *)
(* backing array arr (whose length is the length the range statement       *)
(* captured) and on len, the current length of sm.Sessions.  A range loop  *)
(* evaluates its slice once, so it visits the captured number of cells of  *)
(* the backing array, whatever the body does to sm.Sessions meanwhile.     *)
(*                                                                         *)
(* A run-time panic ends the call; sm.Sessions keeps the value of its last *)
(* completed assignment and the caller (an HTTP server recovers a          *)
(* handler's panic) may go on calling the manager.                         *)
(***************************************************************************)
EXTENDS Integers, Sequences, FiniteSets, TLC

\* ---------------------------------------------------------------- bounds
MaxSessions == 3
MaxTime     == 3

\* ------------------------------------------------------------- constants
Guest == -1

Uids == {Guest, 42}

\* Options.Timeout, in clock ticks.
Timeouts == {1, 2}

CookieNames == {"sid"}
Salts       == {"s3cret"}

Times == 0..MaxTime

\* ------------------------------------------------------------ data types
MakeSID(salt, t) == <<salt, t>>

EmptySID   == <<"", 0>>
ForeignSID == <<"foreign", 0>>


Session(id, expires, uid) ==
    [Id |-> id, Expires |-> expires, Uid |-> uid, Cookie |-> "nil"]

ZeroSession == Session(EmptySID, 0, 0)

\* A *Session: nil, the address of a local copy (val is the copy), or the
\* address of cell idx of the table.
NilPtr        == [ref |-> "nil",   idx |-> 0, val |-> ZeroSession]
LocalPtr(s)   == [ref |-> "local", idx |-> 0, val |-> s]
TablePtr(i,s) == [ref |-> "table", idx |-> i, val |-> s]

Before(a, b) == a < b
After(a, b)  == a > b

VARIABLES Options, Sessions, now, call, ret, pre, pc, loc

vars == <<Options, Sessions, now, call, ret, pre, pc, loc>>

Procs == {1, 2}

\* ---------------------------------------------------------- slice splice
\* A splice that would take out the cell after i.
SpliceNext(arr, len, i) ==
    [k \in 1..Len(arr) |-> IF k <= i THEN arr[k]
                           ELSE IF k < len THEN arr[k + 1] ELSE arr[k]]

\* sm.Sessions = append(sm.Sessions[:i], sm.Sessions[i+1:]...) with i the
\* 1-based index: the cells i+1..len move one place down inside the backing
\* array, the cells from len on keep their (now stale) values.
Splice(arr, len, i) ==
    [k \in 1..Len(arr) |-> IF k < i THEN arr[k]
                           ELSE IF k < len THEN arr[k + 1] ELSE arr[k]]

\* sm.Sessions[i+1:] panics when i+1 exceeds the current length.
SliceInRange(len, i) == i <= len

\* ----------------------------------------------------------- ClearExpired
RECURSIVE ClearLoop(_, _, _, _, _, _)
ClearLoop(arr, len, i, n, count, t) ==
    IF i > n
    THEN [arr |-> arr, len |-> len, count |-> count, panic |-> FALSE]
    ELSE IF Before(arr[i].Expires, t)
         THEN IF SliceInRange(len, i)
              THEN ClearLoop(Splice(arr, len, i), len - 1, i + 1, n, count + 1, t)
              ELSE [arr |-> arr, len |-> len, count |-> count, panic |-> TRUE]
         ELSE ClearLoop(arr, len, i + 1, n, count, t)

\* ClearExpired on the slice of length len held in arr, at clock reading t.
ClearExpiredRun(arr, len, t) == ClearLoop(arr, len, 1, len, 0, t)

\* ------------------------------------------------------------- GetSession
\* The pointer GetSession returns: &s, the address of the loop variable.
ReturnedPtrAlias(arr, i) == TablePtr(i, arr[i])

ReturnedPtr(arr, i) == LocalPtr(arr[i])

RECURSIVE GetLoop(_, _, _, _, _, _)
\* What the loop does once the ClearExpired call of iteration i has ended as c.
GetStep(c, i, n, id, t) ==
    IF c.panic
    THEN [arr |-> c.arr, len |-> c.len, ptr |-> NilPtr, err |-> "panic"]
    ELSE GetLoop(c.arr, c.len, i + 1, n, id, t)

GetLoop(arr, len, i, n, id, t) ==
    IF i > n
    THEN [arr |-> arr, len |-> len, ptr |-> NilPtr, err |-> "NotFound"]
    ELSE IF arr[i].Id = id /\ After(arr[i].Expires, t)
         THEN [arr |-> arr, len |-> len, ptr |-> ReturnedPtr(arr, i), err |-> "nil"]
         ELSE GetStep(ClearExpiredRun(arr, len, t), i, n, id, t)

GetSessionRun(tbl, id, t) == GetLoop(tbl, Len(tbl), 1, Len(tbl), id, t)

\* ---------------------------------------------------------- DeleteSession
RECURSIVE DeleteLoop(_, _, _, _, _)
DeleteLoop(arr, len, i, n, sid) ==
    IF i > n
    THEN [arr |-> arr, len |-> len, panic |-> FALSE]
    ELSE IF arr[i].Id = sid
         THEN IF SliceInRange(len, i)
              THEN DeleteLoop(Splice(arr, len, i), len - 1, i + 1, n, sid)
              ELSE [arr |-> arr, len |-> len, panic |-> TRUE]
         ELSE DeleteLoop(arr, len, i + 1, n, sid)

DeleteSessionRun(tbl, sid) == DeleteLoop(tbl, Len(tbl), 1, Len(tbl), sid)

\* ------------------------------------------- GetUserSession, SetUID scans
\* Both loops run to the end of the table: the last match is the one kept.
RECURSIVE ScanUid(_, _, _, _)
ScanUid(tbl, i, uid, acc) ==
    IF i > Len(tbl) THEN acc
    ELSE ScanUid(tbl, i + 1, uid,
                 IF tbl[i].Uid = uid
                 THEN [found |-> TRUE, sid |-> tbl[i].Id]
                 ELSE acc)

\* A scan that would stop at the first match.
UserScanFirst(tbl, uid) ==
    LET M == {i \in 1..Len(tbl) : tbl[i].Uid = uid} IN
    IF M = {} THEN [found |-> FALSE, sid |-> EmptySID]
    ELSE [found |-> TRUE, sid |-> tbl[CHOOSE i \in M : \A j \in M : i <= j].Id]

UserScan(tbl, uid) == ScanUid(tbl, 1, uid, [found |-> FALSE, sid |-> EmptySID])

\* --------------------------------------------------- access through a pointer
\* *p = s: nil panics, a local copy is overwritten, a table cell is written
\* in the table.
Store(tbl, p, s) ==
    IF p.ref = "nil"
    THEN [tbl |-> tbl, ptr |-> p, panic |-> TRUE]
    ELSE IF p.ref = "table" /\ p.idx <= Len(tbl)
         THEN [tbl |-> [tbl EXCEPT ![p.idx] = s], ptr |-> TablePtr(p.idx, s), panic |-> FALSE]
         ELSE [tbl |-> tbl, ptr |-> [p EXCEPT !.val = s], panic |-> FALSE]

Load(tbl, p) == IF p.ref = "table" /\ p.idx <= Len(tbl) THEN tbl[p.idx] ELSE p.val

\* ------------------------------------------------------------------ SetUID
\* The loop of SetUID: err and sid are those of the last record carrying uid.
SetUIDScan(tbl, uid) ==
    LET r == UserScan(tbl, uid)
    IN  [sid |-> r.sid, err |-> IF r.found THEN "AlreadyBound" ELSE "nil"]

\* if err == nil { session.Uid = uid }
SetUIDStoreAlways(tbl, p, uid, err) ==
    Store(tbl, p, [Load(tbl, p) EXCEPT !.Uid = uid])

SetUIDStore(tbl, p, uid, err) ==
    IF err = "nil"
    THEN Store(tbl, p, [Load(tbl, p) EXCEPT !.Uid = uid])
    ELSE [tbl |-> tbl, ptr |-> p, panic |-> FALSE]

\* --------------------------------------------------------------- results
\* The call last made (rec: the record its *Session argument pointed to) and
\* what it returned (cookie: the cookie handed to http.SetCookie).
NoCookie == [Name |-> "", Value |-> EmptySID, Expires |-> 0]

NoCall == [op |-> "none", id |-> EmptySID, uid |-> 0, rec |-> ZeroSession]
NoRet  == [sid |-> EmptySID, count |-> 0, ptr |-> NilPtr, err |-> "nil", cookie |-> NoCookie]

Call(op, id, uid) == [op |-> op, id |-> id, uid |-> uid, rec |-> ZeroSession]

\* A call whose argument is the pointer p.
CallOn(op, tbl, p, uid) ==
    [op |-> op, id |-> Load(tbl, p).Id, uid |-> uid, rec |-> Load(tbl, p)]

\* ---------------------------------------------------------------- SetCookie
\* c := s.Cookie; c.Name = ...; c.Value = s.Id; c.Expires = s.Expires:
\* reading s.Cookie through a nil s, or writing c.Name through a nil c, panics.
SetCookieRun(opts, tbl, p) ==
    IF p.ref = "nil" \/ Load(tbl, p).Cookie = "nil"
    THEN [cookie |-> NoCookie, panic |-> TRUE]
    ELSE [cookie |-> [Name |-> opts.CookieName,
                      Value |-> Load(tbl, p).Id,
                      Expires |-> Load(tbl, p).Expires],
          panic |-> FALSE]

\* --------------------------------------------------------------- NewSession
\* s.Expires = time.Now().Add(sm.Options.Timeout * time.Minute)
ExpiresAtNoTimeout(t, timeout) == t

ExpiresAt(t, timeout) == t + timeout

\* The locals of a caller that looks a session up and binds it: the pointer it
\* got, the record as it was handed out, and uid, sid, err of its SetUID call.
\* For a caller inside NewSession: rec is its new record s and tbl the value of
\* sm.Sessions it read as the argument of append.
NoLocals == [session |-> NilPtr, rec |-> ZeroSession, uid |-> 0, sid |-> EmptySID,
             err |-> "nil", tbl |-> <<>>]

\* ------------------------------------------------------------------ Init
\* NewSessionManager: the options are stored, the table is the nil slice.
Init ==
    /\ Options \in [CookieName : CookieNames, Salt : Salts, Timeout : Timeouts]
    /\ Sessions = <<>>
    /\ now = 0
    /\ call = NoCall
    /\ ret = NoRet
    /\ pre = <<>>
    /\ pc = [p \in Procs |-> "idle"]
    /\ loc = [p \in Procs |-> NoLocals]

\* The clock moves on between calls.
Tick ==
    /\ now < MaxTime
    /\ now' = now + 1
    /\ call' = NoCall
    /\ ret' = NoRet
    /\ pre' = <<>>
    /\ UNCHANGED <<Options, Sessions, pc, loc>>

NewSession(uid) ==
    /\ Len(Sessions) < MaxSessions
    /\ LET s == Session(MakeSID(Options.Salt, now), ExpiresAt(now, Options.Timeout), uid)
       IN  /\ Sessions' = Append(Sessions, s)
           /\ ret' = [NoRet EXCEPT !.sid = s.Id]
    /\ call' = Call("NewSession", EmptySID, uid)
    /\ pre' = Sessions
    /\ UNCHANGED <<Options, now, pc, loc>>

GetSession(id) ==
    /\ \E r \in {GetSessionRun(Sessions, id, now)} :
           /\ Sessions' = SubSeq(r.arr, 1, r.len)
           /\ ret' = [NoRet EXCEPT !.ptr = r.ptr, !.err = r.err]
    /\ call' = Call("GetSession", id, 0)
    /\ pre' = Sessions
    /\ UNCHANGED <<Options, now, pc, loc>>

GetUserSession(uid) ==
    /\ \E r \in {UserScan(Sessions, uid)} :
           ret' = [NoRet EXCEPT !.sid = r.sid,
                                !.err = IF r.found THEN "nil" ELSE "NotFound"]
    /\ call' = Call("GetUserSession", EmptySID, uid)
    /\ pre' = Sessions
    /\ UNCHANGED <<Options, Sessions, now, pc, loc>>

DeleteSession(sid) ==
    /\ \E r \in {DeleteSessionRun(Sessions, sid)} :
           /\ Sessions' = SubSeq(r.arr, 1, r.len)
           /\ ret' = [NoRet EXCEPT !.err = IF r.panic THEN "panic" ELSE "nil"]
    /\ call' = Call("DeleteSession", sid, 0)
    /\ pre' = Sessions
    /\ UNCHANGED <<Options, now, pc, loc>>

ClearExpired ==
    /\ \E r \in {ClearExpiredRun(Sessions, Len(Sessions), now)} :
           /\ Sessions' = SubSeq(r.arr, 1, r.len)
           /\ ret' = [NoRet EXCEPT !.count = r.count,
                                   !.err = IF r.panic THEN "panic" ELSE "nil"]
    /\ call' = Call("ClearExpired", EmptySID, 0)
    /\ pre' = Sessions
    /\ UNCHANGED <<Options, now, pc, loc>>

\* The caller binds the record the last GetSession handed out.
HasSession == call.op \in {"GetSession", "SetUID", "CallerWrite"} /\ ret.err # "panic"

SetUID(uid) ==
    /\ HasSession
    /\ \E c \in {SetUIDScan(Sessions, uid)} :
       \E w \in {SetUIDStore(Sessions, ret.ptr, uid, c.err)} :
           /\ Sessions' = w.tbl
           /\ ret' = [NoRet EXCEPT !.sid = c.sid, !.ptr = w.ptr,
                                   !.err = IF w.panic THEN "panic" ELSE c.err]
    /\ call' = CallOn("SetUID", Sessions, ret.ptr, uid)
    /\ pre' = Sessions
    /\ UNCHANGED <<Options, now, pc, loc>>

\* The caller writes a field of the record GetSession returned.
CallerWrite(s) ==
    /\ call.op = "GetSession"
    /\ ret.ptr.ref # "nil"
    /\ s # Load(Sessions, ret.ptr)
    /\ \E w \in {Store(Sessions, ret.ptr, s)} :
           /\ Sessions' = w.tbl
           /\ ret' = [NoRet EXCEPT !.ptr = w.ptr]
    /\ call' = CallOn("CallerWrite", Sessions, ret.ptr, 0)
    /\ pre' = Sessions
    /\ UNCHANGED <<Options, now, pc, loc>>

\* The values a caller stores: one field of the record changed ("set" is the
\* address of a cookie the caller allocated).
Writes(s) ==
    {[s EXCEPT !.Uid = u] : u \in Uids}
        \cup {[s EXCEPT !.Id = ForeignSID], [s EXCEPT !.Expires = s.Expires + 1],
              [s EXCEPT !.Cookie = "set"]}

\* The caller sends the cookie of the record it holds.
SetCookie ==
    /\ HasSession
    /\ \E r \in {SetCookieRun(Options, Sessions, ret.ptr)} :
           ret' = [NoRet EXCEPT !.ptr = ret.ptr, !.cookie = r.cookie,
                                !.err = IF r.panic THEN "panic" ELSE "nil"]
    /\ call' = CallOn("SetCookie", Sessions, ret.ptr, 0)
    /\ pre' = Sessions
    /\ UNCHANGED <<Options, Sessions, now, pc, loc>>

\* The tokens a call may be given: those MakeSID can have issued up to now, and
\* one it never issued.
Requested == {MakeSID(Options.Salt, t) : t \in 0..now} \cup {ForeignSID}

Next ==
    \/ Tick
    \/ \E uid \in Uids : NewSession(uid)
    \/ \E id \in Requested : GetSession(id)
    \/ \E uid \in Uids : GetUserSession(uid)
    \/ \E sid \in Requested : DeleteSession(sid)
    \/ ClearExpired
    \/ \E uid \in Uids : SetUID(uid)
    \/ \E s \in Writes(Load(Sessions, ret.ptr)) : CallerWrite(s)
    \/ SetCookie

Spec == Init /\ [][Next]_vars

\* ------------------------------------------------- two callers binding
\* Callers p \in Procs run on their own goroutines.  A caller looks a session
\* up (one step), then runs SetUID in two steps, the loop and the conditional
\* store, between which the other caller may run.
BindLookup(p, id) ==
    /\ pc[p] = "idle"
    /\ \E r \in {GetSessionRun(Sessions, id, now)} :
           /\ r.err = "nil"
           /\ Sessions' = SubSeq(r.arr, 1, r.len)
           /\ loc' = [loc EXCEPT ![p] = [NoLocals EXCEPT !.session = r.ptr,
                                                         !.rec = Load(Sessions, r.ptr)]]
    /\ pc' = [pc EXCEPT ![p] = "have"]
    /\ UNCHANGED <<Options, now, call, ret, pre>>

BindScan(p, uid) ==
    /\ pc[p] = "have"
    /\ \E c \in {SetUIDScan(Sessions, uid)} :
           loc' = [loc EXCEPT ![p].uid = uid, ![p].sid = c.sid, ![p].err = c.err]
    /\ pc' = [pc EXCEPT ![p] = "scanned"]
    /\ UNCHANGED <<Options, Sessions, now, call, ret, pre>>

BindStore(p) ==
    /\ pc[p] = "scanned"
    /\ \E w \in {SetUIDStore(Sessions, loc[p].session, loc[p].uid, loc[p].err)} :
           /\ Sessions' = w.tbl
           /\ loc' = [loc EXCEPT ![p].session = w.ptr]
    /\ pc' = [pc EXCEPT ![p] = "done"]
    /\ UNCHANGED <<Options, now, call, ret, pre>>

\* The table is filled before the two callers start.
BindSetup ==
    /\ \A p \in Procs : pc[p] = "idle"
    /\ (Tick \/ \E uid \in Uids : NewSession(uid))

NextBind ==
    \/ BindSetup
    \/ \E p \in Procs, id \in Requested : BindLookup(p, id)
    \/ \E p \in Procs, uid \in Uids : BindScan(p, uid)
    \/ \E p \in Procs : BindStore(p)

SpecBind == Init /\ [][NextBind]_vars

\* ------------------------------------------------ two callers creating
\* NewSession takes no lock.  A caller builds its record and reads sm.Sessions
\* for append (one step), then stores the slice append returned into
\* sm.Sessions (second step); the other caller may run in between.
CreateRead(p, uid) ==
    /\ pc[p] = "idle"
    /\ Len(Sessions) < MaxSessions
    /\ loc' = [loc EXCEPT ![p] =
                  [NoLocals EXCEPT !.rec = Session(MakeSID(Options.Salt, now),
                                                   ExpiresAt(now, Options.Timeout), uid),
                                   !.uid = uid,
                                   !.tbl = Sessions]]
    /\ pc' = [pc EXCEPT ![p] = "appending"]
    /\ UNCHANGED <<Options, Sessions, now, call, ret, pre>>

CreateWrite(p) ==
    /\ pc[p] = "appending"
    /\ Sessions' = Append(loc[p].tbl, loc[p].rec)
    /\ loc' = [loc EXCEPT ![p].sid = loc[p].rec.Id]
    /\ pc' = [pc EXCEPT ![p] = "created"]
    /\ UNCHANGED <<Options, now, call, ret, pre>>

\* Records created before the two callers start.
RaceSetup ==
    /\ \A p \in Procs : pc[p] = "idle"
    /\ \E uid \in Uids : NewSession(uid)

NextRace ==
    \/ Tick
    \/ RaceSetup
    \/ \E p \in Procs, uid \in Uids : CreateRead(p, uid)
    \/ \E p \in Procs : CreateWrite(p)

SpecRace == Init /\ [][NextRace]_vars

\* =========================================================== properties
UniqueIds(tbl) == \A i, j \in 1..Len(tbl) : tbl[i].Id = tbl[j].Id => i = j

IsPast(s)   == s.Expires < now
IsFuture(s) == s.Expires > now

Past(tbl)   == SelectSeq(tbl, IsPast)
Future(tbl) == SelectSeq(tbl, IsFuture)

HasId(tbl, id) == \E i \in 1..Len(tbl) : tbl[i].Id = id

\* The table a call leaves when run on tbl.
AfterDelete(tbl, id) ==
    LET r == DeleteSessionRun(tbl, id) IN SubSeq(r.arr, 1, r.len)

\* C1: sweep completeness.  When ClearExpired has run on a table of k records
\* whose Expires is in the past and m records whose Expires is in the future
\* and has returned, it returned k and the table holds exactly the m future
\* records.  (Stated for tables whose tokens are pairwise distinct and for
\* calls that return: the claim fails already there.)
C1_SweepComplete ==
    (/\ call.op = "ClearExpired"
     /\ ret.err # "panic"
     /\ UniqueIds(pre)
     /\ \A i \in 1..Len(pre) : IsPast(pre[i]) \/ IsFuture(pre[i]))
    => /\ ret.count = Len(Past(pre))
       /\ Sessions = Future(pre)

\* C2: ClearExpired, and GetSession which calls it, never end in a run-time
\* failure, and ClearExpired neither skips a record it has to remove nor
\* duplicates or drops one it has to keep.  (Stated for tables whose tokens are
\* pairwise distinct: the claim fails already there.)
C2_SweepSafe ==
    (call.op \in {"ClearExpired", "GetSession"} /\ UniqueIds(pre))
    => /\ ret.err # "panic"
       /\ call.op = "ClearExpired"
            => Sessions = SelectSeq(pre, LAMBDA s : ~Before(s.Expires, now))

\* C3: expiry correctness.  GetSession(T) returns the record with token T when
\* its Expires is strictly after now, wherever it stands in the table, and
\* reports NotFound when now has passed its Expires.  (Stated for tables whose
\* tokens are pairwise distinct and for calls that return: the claim fails
\* already there.)
C3_ExpiryCorrect ==
    (call.op = "GetSession" /\ ret.err # "panic" /\ UniqueIds(pre))
    => \A i \in 1..Len(pre) :
          pre[i].Id = call.id
          => /\ IsFuture(pre[i]) => (ret.err = "nil" /\ ret.ptr.val = pre[i])
             /\ IsPast(pre[i]) => ret.err = "NotFound"

\* C4: single binding.  When two callers have bound two different guest
\* records to the same user id, exactly one of the two SetUID calls succeeded
\* and the other signalled AlreadyBound, whatever the interleaving.
C4_SingleBinding ==
    (/\ pc[1] = "done" /\ pc[2] = "done"
     /\ loc[1].uid = loc[2].uid /\ loc[1].uid # Guest
     /\ loc[1].rec.Uid = Guest /\ loc[2].rec.Uid = Guest
     /\ loc[1].rec.Id # loc[2].rec.Id)
    => \/ loc[1].err = "nil" /\ loc[2].err = "AlreadyBound"
       \/ loc[1].err = "AlreadyBound" /\ loc[2].err = "nil"

\* C5: a bind is visible in the registry.  When SetUID(record, u) has succeeded
\* on the record GetSession returned for token T1, the table's record with
\* token T1 carries u, and GetUserSession(u) returns T1.
C5_BindVisible ==
    (/\ call.op = "SetUID" /\ ret.err = "nil"
     /\ UniqueIds(Sessions) /\ HasId(Sessions, call.id))
    => /\ \A i \in 1..Len(Sessions) :
             Sessions[i].Id = call.id => Sessions[i].Uid = call.uid
       /\ UserScan(Sessions, call.uid) = [found |-> TRUE, sid |-> call.id]

\* C6: invariant I2.  No two live records of the table carry the same user id
\* other than the guest sentinel.  (Stated for records with different tokens:
\* the claim fails already there.)
C6_OneSessionPerUser ==
    \A i, j \in 1..Len(Sessions) :
        (/\ Sessions[i].Id # Sessions[j].Id
         /\ IsFuture(Sessions[i]) /\ IsFuture(Sessions[j])
         /\ Sessions[i].Uid # Guest)
        => Sessions[i].Uid # Sessions[j].Uid

\* C7: invariant I1.  The token NewSession returns differs from the token of
\* every record already in the table, so no two live records share a token.
C7_UniqueTokens ==
    /\ call.op = "NewSession" => ~HasId(pre, ret.sid)
    /\ \A i, j \in 1..Len(Sessions) :
          (i # j /\ IsFuture(Sessions[i]) /\ IsFuture(Sessions[j]))
          => Sessions[i].Id # Sessions[j].Id

\* C8: delete idempotence.  DeleteSession(T) signals no failure, a second
\* DeleteSession(T) leaves the table the first one left, and deleting a token
\* that is not in the table changes nothing.
C8_DeleteIdempotent ==
    call.op = "DeleteSession"
    => /\ ret.err = "nil"
       /\ ~DeleteSessionRun(Sessions, call.id).panic
       /\ AfterDelete(Sessions, call.id) = Sessions
       /\ ~HasId(pre, call.id) => Sessions = pre

\* C9: delete postcondition and frame.  After DeleteSession(T) no record with
\* token T is in the table, GetSession(T) reports NotFound, and the records
\* with another token are all there, unchanged and in the same order.  (Stated
\* for tables whose tokens are pairwise distinct: the claim fails already
\* there.)
C9_DeleteFrame ==
    (call.op = "DeleteSession" /\ UniqueIds(pre))
    => /\ ~HasId(Sessions, call.id)
       /\ GetSessionRun(Sessions, call.id, now).err = "NotFound"
       /\ Sessions = SelectSeq(pre, LAMBDA s : s.Id # call.id)

\* C10: GetSession returns a copy.  When the caller has changed the Uid, the Id
\* or the Expires of the record GetSession returned, the table is what it was.
C10_ReturnsCopy ==
    call.op = "CallerWrite" => Sessions = pre

\* C10 witness: the caller's record differs from the stored record it was
\* copied from, which is still in the table.
C10_Witness ==
    /\ call.op = "CallerWrite"
    /\ \E i \in 1..Len(Sessions) :
          /\ Sessions[i].Id = call.id
          /\ Sessions[i].Uid # ret.ptr.val.Uid

\* Another live record than the one passed carries the user id of the call.
OtherLiveCarries(i) ==
    /\ IsFuture(pre[i])
    /\ pre[i].Uid = call.uid
    /\ pre[i].Id # call.id

C12_CreatesSerialize ==
    (/\ pc[1] = "created" /\ pc[2] = "created"
     /\ loc[1].rec.Id # loc[2].rec.Id)
    => /\ \A p \in Procs : \E i \in 1..Len(Sessions) : Sessions[i] = loc[p].rec
       /\ \E p \in Procs :
             /\ \A q \in Procs : Len(loc[p].tbl) <= Len(loc[q].tbl)
             /\ Len(Sessions) = Len(loc[p].tbl) + 2

\* C13: SetCookie on a record NewSession made and GetSession returned (the
\* caller has changed nothing in it) completes normally and sends the cookie
\* named Options.CookieName whose value is the record's token and whose expiry
\* is the record's Expires.
C13_CookieDescriptor ==
    (/\ call.op = "SetCookie"
     /\ \E i \in 1..Len(pre) : pre[i] = call.rec)
    => /\ ret.err = "nil"
       /\ ret.cookie = [Name |-> Options.CookieName,
                        Value |-> call.rec.Id,
                        Expires |-> call.rec.Expires]

\* C14: GetSession(T) never returns a dead or foreign record: the record it
\* returns is a record of the table with token T whose Expires is strictly
\* after now, and when no record with token T is in the table it reports
\* NotFound.  (Stated for tables whose tokens are pairwise distinct.)
C14_NoDeadOrForeign ==
    (call.op = "GetSession" /\ UniqueIds(pre))
    => /\ ret.err = "nil"
            => /\ ret.ptr.ref # "nil"
               /\ ret.ptr.val.Id = call.id
               /\ IsFuture(ret.ptr.val)
               /\ \E i \in 1..Len(pre) : pre[i] = ret.ptr.val
       /\ ret.err # "nil" => ret.ptr = NilPtr
       /\ ~HasId(pre, call.id) => ret.err = "NotFound"

\* C15: every GetSession call sweeps the entire table: after the call
\* returns, with a match or with NotFound and wherever the match stands,
\* no record whose Expires is at or before now remains in the table.
C15_LookupSweepsAll ==
    (call.op = "GetSession" /\ ret.err # "panic")
    => \A i \in 1..Len(Sessions) : Sessions[i].Expires > now

\* The weaker reading of C15 with the code's strict comparison: after a
\* GetSession call that returns, no record whose Expires is strictly
\* before now remains in the table.
C15_LookupSweepsPast ==
    (call.op = "GetSession" /\ ret.err # "panic" /\ UniqueIds(pre))
    => \A i \in 1..Len(Sessions) : ~IsPast(Sessions[i])

\* C16: SetUID(record, userId) succeeds and sets the record's Uid to userId
\* whenever no other live record carries userId: neither an expired record
\* still in the table nor the passed record itself, when it already carries
\* userId, makes the call signal AlreadyBound.  (Stated for tables whose
\* tokens are pairwise distinct and a record that GetSession returned.)
C16_BindSucceeds ==
    (/\ call.op = "SetUID"
     /\ call.rec # ZeroSession
     /\ UniqueIds(pre)
     /\ ~\E i \in 1..Len(pre) : OtherLiveCarries(i))
    => /\ ret.err = "nil"
       /\ ret.ptr.ref # "nil"
       /\ ret.ptr.val.Uid = call.uid

\* Indices of the records of the table before the call that carry the user id
\* of the call.
Carriers == {i \in 1..Len(pre) : pre[i].Uid = call.uid}

FirstCarrier == CHOOSE i \in Carriers : \A j \in Carriers : i <= j
LastCarrier  == CHOOSE i \in Carriers : \A j \in Carriers : j <= i

\* C17 as claimed: GetUserSession(userId) returns the token of the first
\* record, in table order, whose Uid equals userId, also when several records
\* carry it, and signals NotFound when none does.  (Stated for tables whose
\* tokens are pairwise distinct.)
C17_FirstMatch ==
    (call.op = "GetUserSession" /\ UniqueIds(pre))
    => IF Carriers = {}
       THEN ret.err = "NotFound"
       ELSE ret.err = "nil" /\ ret.sid = pre[FirstCarrier].Id

\* C17 amended: GetUserSession(userId) returns the token of the last record,
\* in table order, whose Uid equals userId; when none does it signals NotFound
\* with the empty token; the table is left as it was.
C17_LastMatch ==
    call.op = "GetUserSession"
    => /\ Sessions = pre
       /\ IF Carriers = {}
          THEN ret.err = "NotFound" /\ ret.sid = EmptySID
          ELSE ret.err = "nil" /\ ret.sid = pre[LastCarrier].Id

\* GetUserSession has answered on a table where two records with different
\* tokens carry the user id, with the token of the later one.
C17_Witness ==
    /\ call.op = "GetUserSession"
    /\ UniqueIds(pre)
    /\ Cardinality(Carriers) >= 2
    /\ ret.err = "nil"
    /\ ret.sid = pre[LastCarrier].Id
    /\ ret.sid # pre[FirstCarrier].Id

\* C18: GetUserSession(userId) signals NotFound whenever no live record
\* carries userId: a record whose Expires has passed but which is still in
\* the table is never reported.
C18_UserLookupLive ==
    (/\ call.op = "GetUserSession"
     /\ ~\E i \in 1..Len(pre) : pre[i].Uid = call.uid /\ IsFuture(pre[i]))
    => ret.err = "NotFound"

\* The same with the code's strict comparison and distinct tokens: no record
\* carrying userId has Expires at or after now, and NotFound is signalled.
C18_UserLookupNotPast ==
    (/\ call.op = "GetUserSession"
     /\ UniqueIds(pre)
     /\ \A i \in 1..Len(pre) : pre[i].Uid = call.uid => IsPast(pre[i]))
    => ret.err = "NotFound"

\* The clock reading at which a record was created: MakeSID takes it into the
\* token.
CreatedAt(s) == s.Id[2]

\* C19 (invariant I3): every record's Expires equals the time of its
\* NewSession call plus the configured Timeout: NewSession appends exactly one
\* such record and leaves the others alone, and after every other operation
\* (GetSession, GetUserSession, SetUID, DeleteSession, ClearExpired, SetCookie,
\* a write by the caller), ended normally or not, every record that stays in
\* the table has the Expires it had before: lookups evict, they never renew.
C19_ExpiresSetOnce ==
    /\ \A i \in 1..Len(Sessions) :
           Sessions[i].Expires = CreatedAt(Sessions[i]) + Options.Timeout
    /\ call.op = "NewSession"
           => /\ Len(Sessions) = Len(pre) + 1
              /\ SubSeq(Sessions, 1, Len(pre)) = pre
              /\ Sessions[Len(Sessions)].Id = ret.sid
              /\ Sessions[Len(Sessions)].Expires = now + Options.Timeout
    /\ call.op \notin {"NewSession", "none"}
           => /\ Len(Sessions) <= Len(pre)
              /\ \A i \in 1..Len(Sessions) :
                     \E j \in i..Len(pre) :
                         /\ pre[j].Id = Sessions[i].Id
                         /\ pre[j].Expires = Sessions[i].Expires

\* A GetSession call at a time later than the creation of the record it
\* returns has evicted a record and kept another one, whose Expires is still
\* its creation time plus Timeout.
C19_Witness ==
    /\ call.op = "GetSession"
    /\ ret.err = "nil"
    /\ 0 < Len(Sessions)
    /\ Len(Sessions) < Len(pre)
    /\ \E i \in 1..Len(Sessions) :
           /\ Sessions[i].Id = call.id
           /\ CreatedAt(Sessions[i]) < now
           /\ Sessions[i].Expires = CreatedAt(Sessions[i]) + Options.Timeout

\* C20: sweeping never loses a live session.  After a ClearExpired or
\* GetSession call that returns normally, the records that were in the table
\* before the call with Expires strictly after now are all still in the
\* table, each exactly once and in the same relative order, and the count
\* ClearExpired returns is the table length before the call minus the table
\* length after it.
C20_SweepKeepsLive ==
    (call.op \in {"ClearExpired", "GetSession"} /\ ret.err # "panic")
    => /\ Future(Sessions) = Future(pre)
       /\ Len(Sessions) <= Len(pre)
       /\ call.op = "ClearExpired" => ret.count = Len(pre) - Len(Sessions)

\* ClearExpired has returned normally after removing at least one record from
\* a table that also held a record with Expires after now.
C20_Witness ==
    /\ call.op = "ClearExpired"
    /\ ret.err = "nil"
    /\ ret.count > 0
    /\ Len(Future(pre)) > 0
    /\ Future(Sessions) = Future(pre)

====
